---- MODULE Spec2Model ----
(***************************************************************************)
(* SocietyGuard backend (v3): webhook ingestion, the event store and its   *)
(* listing and bulk clear, the statistics of GET /api/stats, the registry  *)
(* routes, the invites and the daily report.                               *)
(*                                                                         *)
(* Text values (TEXT columns, JSON strings) are sequences of one-character *)
(* strings, so that toLowerCase, includes and template concatenation are   *)
(* computed as the JavaScript computes them.  The empty sequence is the    *)
(* falsy value of a JavaScript `a || b` chain (undefined, null and "").    *)
(*                                                                         *)
(* Instants (Date values, TIMESTAMPTZ columns, NOW()) are integers counted *)
(* in minutes from a UTC midnight; the database session time zone is UTC.  *)
(*                                                                         *)
(* Not part of the state: the audit_logs, app_settings and wings tables    *)
(* and the e-mail provider.  auditLog and sendEmail catch their own errors *)
(* and no modelled operation reads what they write; no table has a foreign *)
(* key to or from table events.                                            *)
(***************************************************************************)
EXTENDS Integers, Sequences, FiniteSets, TLC

VARIABLES now, societies, cameras, users, user_societies, events, req, stats,
          listing, clear, report, auth

vars == <<now, societies, cameras, users, user_societies, events, req, stats,
          listing, clear, report, auth>>

----------------------------------------------------------------------------
\* Canonical event types and literals returned by mapEventType.
person_detected == <<"p","e","r","s","o","n","_","d","e","t","e","c","t","e","d">>
vehicle_detected == <<"v","e","h","i","c","l","e","_","d","e","t","e","c","t","e","d">>
crowd_detected == <<"c","r","o","w","d","_","d","e","t","e","c","t","e","d">>
loitering == <<"l","o","i","t","e","r","i","n","g">>
camera_offline == <<"c","a","m","e","r","a","_","o","f","f","l","i","n","e">>
camera_online == <<"c","a","m","e","r","a","_","o","n","l","i","n","e">>
analytic == <<"a","n","a","l","y","t","i","c">>
unknown == <<"u","n","k","n","o","w","n">>

\* Keywords searched by mapEventType and by the visitor count.
kw_motion == <<"m","o","t","i","o","n">>
kw_person == <<"p","e","r","s","o","n">>
kw_people == <<"p","e","o","p","l","e">>
kw_vehicle == <<"v","e","h","i","c","l","e">>
kw_car == <<"c","a","r">>
kw_alpr == <<"a","l","p","r">>
kw_crowd == <<"c","r","o","w","d">>
kw_loiter == <<"l","o","i","t","e","r">>
kw_offline == <<"o","f","f","l","i","n","e">>
kw_disconnect == <<"d","i","s","c","o","n","n","e","c","t">>
kw_online == <<"o","n","l","i","n","e">>
kw_connect == <<"c","o","n","n","e","c","t">>
kw_face == <<"f","a","c","e">>

\* Other literals of the webhook handler and of the seed data.
UNKNOWN == <<"U","N","K","N","O","W","N">>
C01 == <<"C","0","1">>
C02 == <<"C","0","2">>
C03 == <<"C","0","3">>
CameraPrefix == <<"C","a","m","e","r","a"," ">>
Dash == <<"-">>

\* const IST_OFFSET_MS = 5.5 * 60 * 60 * 1000, in minutes.
IST_OFFSET_MS == 330

\* One day (INTERVAL '1 day'), in minutes.
DAY == 1440

----------------------------------------------------------------------------
\* JavaScript and SQL primitives.

\* a || b on text values.
Or(a, b) == IF a # <<>> THEN a ELSE b

UpperChars == <<"A","B","C","D","E","F","G","H","I","J","K","L","M",
                "N","O","P","Q","R","S","T","U","V","W","X","Y","Z">>
LowerChars == <<"a","b","c","d","e","f","g","h","i","j","k","l","m",
                "n","o","p","q","r","s","t","u","v","w","x","y","z">>

\* String.prototype.toLowerCase.
toLowerCase(s) ==
  [i \in 1..Len(s) |->
     IF \E k \in 1..26 : UpperChars[k] = s[i]
       THEN LowerChars[CHOOSE k \in 1..26 : UpperChars[k] = s[i]]
       ELSE s[i]]

\* String.prototype.toUpperCase.
toUpperCase(s) ==
  [i \in 1..Len(s) |->
     IF \E k \in 1..26 : LowerChars[k] = s[i]
       THEN UpperChars[CHOOSE k \in 1..26 : LowerChars[k] = s[i]]
       ELSE s[i]]

\* String.prototype.includes.
includes(s, p) ==
  \E k \in 0..(Len(s) - Len(p)) : SubSeq(s, k + 1, k + Len(p)) = p

DigitChars == <<"0","1","2","3","4","5","6","7","8","9">>

\* Decimal text of a non-negative integer (template literal of a number,
\* id::text).
RECURSIVE ToText(_)
ToText(n) ==
  IF n < 10 THEN <<DigitChars[n + 1]>>
  ELSE ToText(n \div 10) \o <<DigitChars[(n % 10) + 1]>>

Max(a, b) == IF a >= b THEN a ELSE b

\* Timestamp texts.  kind "iso": a text both `new Date()` and the
\* timestamptz input accept, denoting instant t; "jsonly": a value
\* `new Date()` accepts and timestamptz input rejects (a JSON number of epoch
\* milliseconds); "bad": a text `new Date()` turns into an Invalid Date;
\* "absent": the field is missing (falsy).
IsoText(t) == [kind |-> "iso", t |-> t]
JsOnlyText(t) == [kind |-> "jsonly", t |-> t]
BadText == [kind |-> "bad", t |-> 0]
NoText == [kind |-> "absent", t |-> 0]

\* a || b on timestamp values.
OrTs(a, b) == IF a.kind # "absent" THEN a ELSE b

----------------------------------------------------------------------------
\* Helpers of the backend.

\* toIST that returns the instant itself, not shifted.
toIST_unshifted(utcStr) ==
  IF utcStr.kind = "bad" THEN NoText ELSE IsoText(utcStr.t)

\* toIST: null (NoText) for an Invalid Date, else the ISO text of the
\* instant shifted by IST_OFFSET_MS.
toIST(utcStr) ==
  IF utcStr.kind = "bad" THEN NoText
  ELSE IsoText(utcStr.t + IST_OFFSET_MS)

\* raw?.data?.objectsFound || raw?.objectsFound || [] ; an array, also an
\* empty one, is truthy.  The result is the sequence of the (o.type||"").
objectsFound(raw) ==
  IF raw.dataObjects.present THEN raw.dataObjects.items
  ELSE IF raw.objects.present THEN raw.objects.items
  ELSE <<>>

\* mapEventType with the online/connect rule tried before the
\* offline/disconnect rule.
mapEventType_onlineFirst(type, raw) ==
  IF type = <<>> THEN unknown
  ELSE
    LET t == toLowerCase(type)
    IN
    IF includes(t, analytic) THEN analytic
    ELSE IF includes(t, kw_motion) \/ includes(t, kw_person) \/ includes(t, kw_people)
      THEN person_detected
    ELSE IF includes(t, kw_vehicle) \/ includes(t, kw_car) \/ includes(t, kw_alpr)
      THEN vehicle_detected
    ELSE IF includes(t, kw_crowd) THEN crowd_detected
    ELSE IF includes(t, kw_loiter) THEN loitering
    ELSE IF includes(t, kw_online) \/ includes(t, kw_connect) THEN camera_online
    ELSE IF includes(t, kw_offline) \/ includes(t, kw_disconnect) THEN camera_offline
    ELSE t

mapEventType(type, raw) ==
  IF type = <<>> THEN unknown
  ELSE
    LET t == toLowerCase(type)
        found == objectsFound(raw)
        types == [k \in 1..Len(found) |-> toLowerCase(found[k])]
        some(kws) ==
          \E k \in 1..Len(types) : \E kw \in kws : includes(types[k], kw)
    IN
    IF t = analytic \/ includes(t, analytic) THEN
      IF some({kw_person, kw_people}) THEN person_detected
      ELSE IF some({kw_vehicle, kw_car}) THEN vehicle_detected
      ELSE IF some({kw_crowd}) THEN crowd_detected
      ELSE IF some({kw_face}) THEN person_detected
      ELSE analytic
    ELSE IF includes(t, kw_motion) \/ includes(t, kw_person) \/ includes(t, kw_people)
      THEN person_detected
    ELSE IF includes(t, kw_vehicle) \/ includes(t, kw_car) \/ includes(t, kw_alpr)
      THEN vehicle_detected
    ELSE IF includes(t, kw_crowd) THEN crowd_detected
    ELSE IF includes(t, kw_loiter) THEN loitering
    ELSE IF includes(t, kw_offline) \/ includes(t, kw_disconnect) THEN camera_offline
    ELSE IF includes(t, kw_online) \/ includes(t, kw_connect) THEN camera_online
    ELSE t

visitorTypes == {person_detected, vehicle_detected, crowd_detected}

\* visitor_count: visitorTypes.includes(event_type) ? 1 : 0
visitorCount_one(event_type, raw) ==
  IF event_type \in visitorTypes THEN 1 ELSE 0

\* const visitorCount = visitorTypes.includes(event_type) ? Math.max(1, ...) : 0
visitorCount(event_type, raw) ==
  LET objects == objectsFound(raw)
      filtered == { k \in 1..Len(objects) :
                      toLowerCase(objects[k]) \in {kw_person, kw_people, kw_face} }
  IN IF event_type \in visitorTypes
       THEN Max(1, Cardinality(filtered))
       ELSE 0

----------------------------------------------------------------------------
\* Bounds of the model.

\* Concurrently handled webhook requests.
NumReq == 2
\* Elements of one webhook body.
MaxBatch == 3
\* Elements of the webhook body whose events the statistics are taken of.
MaxSmallBatch == 2
\* Firings of the daily report timer.
MaxRuns == 2
\* Invites issued (POST /api/users and resend-invite).
MaxInvites == 2
\* Days the clock runs over.
MaxDays == 2

Reqs == 1..NumReq

\* Instants the clock takes: 00:00, 09:30 and 19:00 UTC of day 0, which are
\* 05:30 and 15:00 IST of day 0 and 00:30 IST of day 1.
Instants == {0, 570, 1140}

\* Values of Math.random().toString(36).slice(2,6).
RandomSuffixes == {<<"a","b","1","2">>, <<"z">>}

----------------------------------------------------------------------------
\* Seed data of initDB.

SeedSocieties ==
  { [id |-> 1, code |-> C01], [id |-> 2, code |-> C02], [id |-> 3, code |-> C03] }

\* A row of table users as the INSERT of the seed writes it: a password is
\* set, invite_token and invite_expires are NULL (0), created_at is NOW().
User(id, username, email, role, society_id) ==
  [id |-> id, username |-> username, email |-> email, role |-> role,
   society_id |-> society_id, is_active |-> TRUE, password |-> TRUE,
   invite_token |-> 0, invite_expires |-> 0, created_at |-> 0]

\* The seeded users: superadmin, secretary (C01), chairman (C02), guard1.
SeedUsers ==
  { User(1, "superadmin", "superadmin@societyguard.app", "superuser", 0),
    User(2, "secretary", "secretary@greenvalley.com", "admin", 1),
    User(3, "chairman", "chairman@sunrise.com", "admin", 2),
    User(4, "guard1", "guard1@greenvalley.com", "operator", 1) }

cam93518 == <<"9","3","5","1","8">>

SeedCameras ==
  { [id |-> 1, camera_uid |-> cam93518,
     name |-> <<"M","a","i","n"," ","G","a","t","e">>],
    [id |-> 2, camera_uid |-> <<"9","8","3","0","8">>,
     name |-> <<"P","a","r","k","i","n","g"," ","L","o","t">>],
    [id |-> 3, camera_uid |-> <<"9","3","5","1","5">>,
     name |-> <<"L","o","b","b","y"," ","E","n","t","r","a","n","c","e">>] }

----------------------------------------------------------------------------
\* Webhook bodies.  An element of a body is an object (any field may be
\* missing), null, or a JSON scalar; a scalar has none of the fields.

NoArray == [present |-> FALSE, items |-> <<>>]
Array(items) == [present |-> TRUE, items |-> items]
NoIntegration == [present |-> FALSE, clientId |-> <<>>, siteId |-> <<>>]
Integration(clientId, siteId) ==
  [present |-> TRUE, clientId |-> clientId, siteId |-> siteId]

\* The object {} .
EmptyObject ==
  [kind |-> "object", deviceId |-> <<>>, camera_id |-> <<>>, type |-> <<>>,
   event_type |-> <<>>, startTimeUtc |-> NoText, timestamp_utc |-> NoText,
   integration |-> NoIntegration, dataObjects |-> NoArray, objects |-> NoArray,
   id |-> <<>>]
NullElement == [EmptyObject EXCEPT !.kind = "null"]
ScalarElement == [EmptyObject EXCEPT !.kind = "scalar"]

cam777 == <<"7","7","7">>
id_e1 == <<"e","1">>
t_PersonMotionAlert ==
  <<"P","e","r","s","o","n","-","M","o","t","i","o","n","-","A","l","e","r","t">>
t_CameraDisconnectEvent ==
  <<"C","a","m","e","r","a","D","i","s","c","o","n","n","e","c","t","E","v","e","n","t">>
o_Person == <<"P","e","r","s","o","n">>
o_face == <<"f","a","c","e">>
o_car == <<"c","a","r">>

\* A vendor event of a registered camera, with a vendor event id.
VendorEvent ==
  [EmptyObject EXCEPT !.deviceId = cam93518, !.id = id_e1,
     !.type = t_PersonMotionAlert, !.startTimeUtc = IsoText(1140),
     !.integration = Integration(C02, <<>>),
     !.dataObjects = Array(<<o_Person, o_face>>)]
\* The same event with timestamp_utc: "not-a-date".
BadTimeEvent ==
  [VendorEvent EXCEPT !.startTimeUtc = NoText, !.timestamp_utc = BadText]
\* An offline event of an unregistered camera, site given by numeric id.
OfflineEvent ==
  [EmptyObject EXCEPT !.camera_id = cam777,
     !.event_type = t_CameraDisconnectEvent,
     !.integration = Integration(<<>>, <<"2">>),
     !.objects = Array(<<o_Person>>)]

\* A motion event without a timestamp or an integration.
MotionEvent ==
  [EmptyObject EXCEPT !.deviceId = cam93518, !.type = kw_motion]

\* The recovery of the same camera.
t_CamOnline == <<"C","a","m"," ","O","n","l","i","n","e">>
OnlineEvent ==
  [OfflineEvent EXCEPT !.event_type = t_CamOnline, !.objects = NoArray]

\* A vendor event of 12:30 UTC (18:00 IST) of day -7.
WeekOldEvent == [VendorEvent EXCEPT !.startTimeUtc = IsoText(-9330)]

CuratedRaw == {VendorEvent, BadTimeEvent, OfflineEvent, EmptyObject}

\* Raw type strings, among them the absent type.
RawTypes ==
  { <<>>, t_PersonMotionAlert, t_CameraDisconnectEvent,
    <<"A","L","P","R","_","H","I","T">>,
    <<"w","e","i","r","d","_","c","u","s","t","o","m","_","t","y","p","e">>,
    <<"A","n","a","l","y","t","i","c">>,
    <<"M","o","t","i","o","n"," ","A","n","a","l","y","t","i","c">>,
    <<"R","e","c","o","n","n","e","c","t","e","d">>,
    <<"c","r","o","w","d","-","v","e","h","i","c","l","e">>,
    <<"L","O","I","T","E","R","I","N","G">>,
    t_CamOnline,
    <<"v","e","h","i","c","l","e","/","p","e","r","s","o","n">>,
    <<"o","f","f","l","i","n","e">> }

\* Detected-object lists: <<data.objectsFound, objectsFound>>.
ObjectLists ==
  { <<NoArray, NoArray>>,
    <<Array(<<o_Person, o_face>>), NoArray>>,
    <<Array(<<>>), Array(<<<<"P","E","O","P","L","E">>>>)>>,
    <<NoArray, Array(<<o_car, <<"C","r","o","w","d">>>>)>>,
    <<Array(<<<<"f","a","c","e","-","b","l","u","r">>, <<>>, o_Person>>), NoArray>>,
    <<Array(<<o_car, o_face>>), NoArray>> }

Integrations ==
  { NoIntegration, Integration(C02, <<>>), Integration(<<>>, <<"3">>),
    Integration(<<"X","9">>, C01), Integration(<<>>, <<>>) }

\* Elements that vary the type and the objects, the timestamps, and the
\* identifiers, and the elements that are no objects.
WideRaw ==
  { [EmptyObject EXCEPT !.type = t, !.dataObjects = o[1], !.objects = o[2]] :
      t \in RawTypes, o \in ObjectLists }
  \cup
  { [EmptyObject EXCEPT !.event_type = t_CameraDisconnectEvent, !.objects = o[2]] :
      o \in ObjectLists }
  \cup
  { [VendorEvent EXCEPT !.startTimeUtc = a, !.timestamp_utc = b] :
      a \in {NoText, IsoText(1140), BadText},
      b \in {NoText, IsoText(570), BadText, JsOnlyText(570)} }
  \cup
  { [EmptyObject EXCEPT !.deviceId = d, !.camera_id = c, !.id = i,
                        !.integration = g] :
      d \in {<<>>, cam93518}, c \in {<<>>, cam777}, i \in {<<>>, id_e1},
      g \in Integrations }
  \cup {NullElement, ScalarElement}
RetriedRaw == {VendorEvent, EmptyObject}
TimedRaw == {VendorEvent, MotionEvent, OfflineEvent}
TrendRaw == {WeekOldEvent, MotionEvent}
TenantRaw == {MotionEvent, OfflineEvent}
DowntimeRaw == {OfflineEvent, OnlineEvent}
RegistryRaw == {VendorEvent}
ResolveRaw == { [MotionEvent EXCEPT !.integration = g] : g \in Integrations }

Bodies(Raws, maxLen) == UNION { [1..n -> Raws] : n \in 1..maxLen }

----------------------------------------------------------------------------
\* State.
\*   now        wall clock and NOW()
\*   societies  rows of table societies (id, code)
\*   cameras    rows of table cameras (id, camera_uid, name)
\*   users      rows of table users (id, username, email, role, society_id,
\*              is_active, password, invite_token, invite_expires,
\*              created_at); society_id 0 and invite_token 0 are NULL,
\*              password tells whether password_hash is set
\*   user_societies  rows of table user_societies: <<user_id, society_id>>
\*   events     rows of table events, in insertion order
\*   req        the webhook requests being handled
\*   stats      the last response of GET /api/stats
\*   listing    the last outcome of GET /api/events
\*   clear      the DELETE /api/events request being handled
\*   report     the timer of scheduleDailyReport and the runs of
\*              sendDailyReports
\*   auth       the invites issued, the POST /api/set-password request being
\*              handled and the last outcome of POST /api/login

\* A request: pc is the position of the handler; i the index of the loop
\* over rawEvents; processed the counter of the handler; timestamp_utc,
\* client_id and camName the locals that depend on the time or on a query.
\* received is the body of the 200 response (-1 before it is sent).
\* History of the request: added counts the rows its INSERTs created, noops
\* its INSERTs that found the event_uid present, skipped the `continue`s,
\* errors the "DB insert error" lines; failed tells whether a query of the
\* request raised an error, thrown whether the handler's promise rejected.
IdleReq ==
  [pc |-> "idle", body |-> <<>>, i |-> 1, processed |-> 0,
   timestamp_utc |-> NoText, client_id |-> <<>>, camName |-> <<>>,
   received |-> -1, added |-> 0, noops |-> 0, skipped |-> 0, errors |-> 0,
   failed |-> FALSE]

NoStats == [client_id |-> <<>>, at |-> -1,
            visitors |-> [today |-> 0, yesterday |-> 0, week |-> 0],
            camera_activity |-> <<>>, downtime |-> {},
            trends |-> [hourly |-> <<>>, weekly |-> <<>>],
            total_events_stored |-> 0]

\* GET /api/events: the query parameters, whether the response was sent
\* (status "ok") or the handler's promise rejected ("thrown"), and the body
\* {total, events}.  uid is the x-user-id header of the request (0: none) and
\* cid the handler's local of that name (0: null).
NoLimit == [given |-> FALSE, n |-> 0]
Limit(n) == [given |-> TRUE, n |-> n]
NoQuery ==
  [client_id |-> <<>>, event_type |-> <<>>, from |-> NoText, to |-> NoText,
   limit |-> NoLimit]
NoListing ==
  [status |-> "none", uid |-> 0, cid |-> 0, query |-> NoQuery, total |-> 0,
   events |-> <<>>]

\* DELETE /api/events: pc is the position of the handler, total the COUNT(*)
\* it read, cleared the body of its response (-1 before it is sent).
\* History: removed is the number of rows its DELETE removed.
IdleClear == [pc |-> "idle", total |-> 0, cleared |-> -1, removed |-> 0]

\* scheduleDailyReport at 00:00 UTC: next is 03:30 UTC of the same day, the
\* setTimeout is pending.  set is the instant the pending timer was set at,
\* due the instant it fires at.
NoReport == [timer |-> "timeout", set |-> 0, due |-> 210, runs |-> <<>>]

\* POST /api/set-password: pc is the position of the handler (at the await
\* of the SELECT, of the UPDATE), token its body.token, id the rows[0].id it
\* read, status the response ("ok", "rejected").  POST /api/login: the
\* username and the response.
\* History: issued lists the invites in the order they were issued (token,
\* the user's id and username, the instant), used the tokens whose
\* set-password request was answered "Password set!".
NoAuth ==
  [issued |-> <<>>, used |-> {}, pc |-> "idle", token |-> 0, id |-> 0,
   status |-> "none", login |-> [username |-> "", status |-> "none"]]

Init ==
  /\ now = 0
  /\ societies = SeedSocieties
  /\ cameras = SeedCameras
  /\ users = SeedUsers
  /\ user_societies =
       { <<u.id, u.society_id>> : u \in { u \in SeedUsers : u.society_id # 0 } }
  /\ events = <<>>
  /\ req = [q \in Reqs |-> IdleReq]
  /\ stats = NoStats
  /\ listing = NoListing
  /\ clear = IdleClear
  /\ report = NoReport
  /\ auth = NoAuth

----------------------------------------------------------------------------
\* Registry lookups.

\* SELECT code FROM societies WHERE code=$1 OR id::text=$1
SocietyRows(raw) == { s \in societies : s.code = raw \/ ToText(s.id) = raw }

\* A getSocietyCode whose query is SELECT code FROM societies WHERE code=$1
getSocietyCode_codeOnly(integration) ==
  LET raw == Or(integration.clientId, Or(integration.siteId, C01))
      codes == { s.code : s \in { s \in societies : s.code = raw } } \ {<<>>}
  IN IF codes = {} THEN {raw} ELSE codes

\* getSocietyCode after `if (!integration) return "C01"`: the values
\* rows[0]?.code || raw can take (the order of rows is not specified).
getSocietyCode(integration) ==
  LET raw == Or(integration.clientId, Or(integration.siteId, C01))
      codes == { s.code : s \in SocietyRows(raw) } \ {<<>>}
  IN IF codes = {} THEN {raw} ELSE codes

\* getCameraName: rows[0]?.name || `Camera ${cameraUid}` (camera_uid is
\* UNIQUE, so at most one row).
getCameraName(cameraUid) ==
  LET rows == { c \in cameras : c.camera_uid = cameraUid }
  IN IF rows = {} THEN CameraPrefix \o cameraUid
     ELSE Or((CHOOSE c \in rows : TRUE).name, CameraPrefix \o cameraUid)

----------------------------------------------------------------------------
\* POST /webhook.

\* The fields the handler computes from the raw element alone.
camera_id(raw) == Or(raw.deviceId, Or(raw.camera_id, UNKNOWN))
event_type_raw(raw) == Or(raw.type, Or(raw.event_type, unknown))
event_type(raw) == mapEventType(event_type_raw(raw), raw)

\* `${camera_id}-${raw.id||Date.now()}-${Math.random().toString(36).slice(2,6)}`
event_uid(raw, clock, rnd) ==
  camera_id(raw) \o Dash \o Or(raw.id, ToText(clock)) \o Dash \o rnd

\* The event object of the handler, as the row the INSERT writes
\* (timestamp texts cast to timestamptz instants).
Event(raw, r, clock, rnd) ==
  [event_uid |-> event_uid(raw, clock, rnd),
   camera_id |-> camera_id(raw),
   camera_location |-> r.camName,
   event_type |-> event_type(raw),
   event_type_raw |-> event_type_raw(raw),
   visitor_count |-> visitorCount(event_type(raw), raw),
   client_id |-> r.client_id,
   timestamp_utc |-> r.timestamp_utc.t,
   timestamp_ist |-> toIST(r.timestamp_utc).t,
   source_id |-> raw.id]

\* Outcomes of a query: TRUE when the database answers, FALSE when the
\* query raises an error (the store is unavailable).
Available == {TRUE}
Unreliable == {TRUE, FALSE}

\* The handler's promise rejects: no later element is processed and the
\* 200 response is never sent.
Throw(r) == [r EXCEPT !.pc = "thrown"]

\* A request arrives: rawEvents, processed = 0.  Requests are numbered in
\* the order of their arrival.
Receive(q, bodies) ==
  /\ req[q].pc = "idle"
  /\ \A p \in 1..(q - 1) : req[p].pc # "idle"
  /\ \E body \in bodies :
       req' = [req EXCEPT ![q] = [IdleReq EXCEPT !.pc = "loop", !.body = body]]
  /\ UNCHANGED <<now, societies, cameras, users, events, stats, listing, clear, report,
               user_societies, auth>>

\* Loop head up to `await getSocietyCode(raw.integration)`.  Reading a
\* property of null raises a TypeError.
ResolveSociety(q, outcomes) ==
  LET r == req[q] IN
  /\ r.pc = "loop"
  /\ r.i <= Len(r.body)
  /\ LET raw == r.body[r.i]
         ts == OrTs(raw.startTimeUtc, OrTs(raw.timestamp_utc, IsoText(now)))
         next == [r EXCEPT !.pc = "camera", !.timestamp_utc = ts]
     IN
     IF raw.kind = "null"
       THEN req' = [req EXCEPT ![q] = Throw(r)]
     ELSE IF ~raw.integration.present
       THEN req' = [req EXCEPT ![q] = [next EXCEPT !.client_id = C01]]
     ELSE \E ok \in outcomes :
            IF ok
              THEN \E code \in getSocietyCode(raw.integration) :
                     req' = [req EXCEPT ![q] = [next EXCEPT !.client_id = code]]
              ELSE req' = [req EXCEPT ![q] = [Throw(r) EXCEPT !.failed = TRUE]]
  /\ UNCHANGED <<now, societies, cameras, users, events, stats, listing, clear, report,
               user_societies, auth>>

\* A skip that leaves the loop (`break`).
Skip_break(r) ==
  [r EXCEPT !.pc = "loop", !.i = Len(r.body) + 1, !.skipped = r.skipped + 1]

\* if (!ist) { console.log(...); continue; }
Skip(r) == [r EXCEPT !.pc = "loop", !.i = r.i + 1, !.skipped = r.skipped + 1]

\* toIST, the skip of an invalid timestamp, `await getCameraName(camera_id)`.
ResolveCamera(q, outcomes) ==
  LET r == req[q]
      raw == r.body[r.i]
  IN
  /\ r.pc = "camera"
  /\ IF toIST(r.timestamp_utc) = NoText
       THEN req' = [req EXCEPT ![q] = Skip(r)]
     ELSE \E ok \in outcomes :
            IF ok
              THEN req' = [req EXCEPT ![q] =
                             [r EXCEPT !.pc = "insert",
                                       !.camName = getCameraName(camera_id(raw))]]
              ELSE req' = [req EXCEPT ![q] = [Throw(r) EXCEPT !.failed = TRUE]]
  /\ UNCHANGED <<now, societies, cameras, users, events, stats, listing, clear, report,
               user_societies, auth>>

\* An INSERT into a table without the unique constraint.
InsertRow_duplicates(rows, event) == Append(rows, event)

\* INSERT INTO events ... ON CONFLICT (event_uid) DO NOTHING
InsertRow(rows, event) ==
  IF \E k \in 1..Len(rows) : rows[k].event_uid = event.event_uid
    THEN rows
    ELSE Append(rows, event)

\* The try block: the INSERT, processed++ (auditLog and sendOfflineAlert
\* change nothing of the state), and the catch that logs a failed INSERT.
\* The INSERT fails when the store is unavailable or when the timestamp
\* text is not a timestamptz.
InsertEvent(q, outcomes) ==
  LET r == req[q]
      raw == r.body[r.i]
      step == [r EXCEPT !.pc = "loop", !.i = r.i + 1]
  IN
  /\ r.pc = "insert"
  /\ \E rnd \in RandomSuffixes, ok \in outcomes :
       LET event == Event(raw, r, now, rnd)
           rows == InsertRow(events, event)
       IN
       IF ok /\ r.timestamp_utc.kind = "iso"
         THEN /\ events' = rows
              /\ req' = [req EXCEPT ![q] =
                           [step EXCEPT !.processed = r.processed + 1,
                                        !.added = r.added + (Len(rows) - Len(events)),
                                        !.noops = r.noops + (1 - (Len(rows) - Len(events)))]]
         ELSE /\ events' = events
              /\ req' = [req EXCEPT ![q] =
                           [step EXCEPT !.errors = r.errors + 1, !.failed = TRUE]]
  /\ UNCHANGED <<now, societies, cameras, users, stats, listing, clear, report,
               user_societies, auth>>

\* return res.status(200).json({ received: processed })
Respond(q) ==
  LET r == req[q] IN
  /\ r.pc = "loop"
  /\ r.i > Len(r.body)
  /\ req' = [req EXCEPT ![q] = [r EXCEPT !.pc = "done", !.received = r.processed]]
  /\ UNCHANGED <<now, societies, cameras, users, events, stats, listing, clear, report,
               user_societies, auth>>

\* Time passes.
Tick ==
  /\ \E t \in Instants : t > now /\ now' = t
  /\ UNCHANGED <<societies, cameras, users, events, req, stats, listing, clear, report,
               user_societies, auth>>

----------------------------------------------------------------------------
\* GET /api/stats.

\* x::date of a timestamptz (session time zone UTC), as a day number.
SqlDate(t) == t \div DAY

\* EXTRACT(HOUR FROM x) of a timestamptz (session time zone UTC).
SqlHour(t) == (t % DAY) \div 60

RECURSIVE Sum(_)
Sum(seq) == IF seq = <<>> THEN 0 ELSE Head(seq) + Sum(Tail(seq))

\* SQL values of the aggregates: NULL, or an integer.
NULL == [null |-> TRUE, v |-> 0]
SqlInt(n) == [null |-> FALSE, v |-> n]

\* SUM(x) over the selected values: NULL when no row is selected.
SqlSum(vals) == IF vals = <<>> THEN NULL ELSE SqlInt(Sum(vals))

\* A COALESCE that hands its first argument on.
COALESCE_null(a, b) == a

\* COALESCE(a, b)
COALESCE(a, b) == IF a.null THEN SqlInt(b) ELSE a

\* NaN of JavaScript, a value no count and no sum takes.
NaN == -1

\* parseInt of a column of a result row: NaN for null.
parseInt(x) == IF x.null THEN NaN ELSE x.v

\* COALESCE(c.name,'Camera '||e.camera_id) of events e LEFT JOIN cameras c
\* ON c.camera_uid=e.camera_id (camera_uid is UNIQUE, name NOT NULL).
Location(cameraUid) ==
  LET rows == { c \in cameras : c.camera_uid = cameraUid }
  IN IF rows = {} THEN CameraPrefix \o cameraUid
     ELSE (CHOOSE c \in rows : TRUE).name

\* The downtime query with the incidents closed by the next camera_online
\* event of the camera left out.
Downtime_paired(rows, client_id) ==
  LET Open(k) ==
        /\ rows[k].event_type = camera_offline
        /\ (client_id = <<>> \/ rows[k].client_id = client_id)
        /\ ~\E j \in (k + 1)..Len(rows) :
              /\ rows[j].event_type = camera_online
              /\ rows[j].camera_id = rows[k].camera_id
      ids == { rows[k].camera_id : k \in {k \in 1..Len(rows) : Open(k)} }
  IN { [camera_id |-> id, location |-> Location(id),
        incidents |-> Cardinality({k \in 1..Len(rows) :
                                     Open(k) /\ rows[k].camera_id = id}),
        downtime_minutes |-> 30 * Cardinality({k \in 1..Len(rows) :
                                     Open(k) /\ rows[k].camera_id = id})] :
       id \in ids }

\* The downtime query without its ${cid} condition.
Downtime_allTenants(rows, client_id) ==
  LET Sel(k) == rows[k].event_type = camera_offline
      ids == { rows[k].camera_id : k \in {k \in 1..Len(rows) : Sel(k)} }
  IN { [camera_id |-> id, location |-> Location(id),
        incidents |-> Cardinality({k \in 1..Len(rows) :
                                     Sel(k) /\ rows[k].camera_id = id}),
        downtime_minutes |-> Cardinality({k \in 1..Len(rows) :
                                     Sel(k) /\ rows[k].camera_id = id}) * 30] :
       id \in ids }

\* The downtime query: SELECT e.camera_id, ... as location, COUNT(*) as
\* incidents, COUNT(*)*30 as downtime_minutes ... WHERE
\* e.event_type='camera_offline' ${cid} GROUP BY e.camera_id,c.name
Downtime(rows, client_id) ==
  LET Sel(k) ==
        /\ rows[k].event_type = camera_offline
        /\ (client_id = <<>> \/ rows[k].client_id = client_id)
      ids == { rows[k].camera_id : k \in {k \in 1..Len(rows) : Sel(k)} }
  IN { [camera_id |-> id, location |-> Location(id),
        incidents |-> Cardinality({k \in 1..Len(rows) :
                                     Sel(k) /\ rows[k].camera_id = id}),
        downtime_minutes |-> Cardinality({k \in 1..Len(rows) :
                                     Sel(k) /\ rows[k].camera_id = id}) * 30] :
       id \in ids }

\* The camera activity query: the groups of the events of the last 7 days.
CameraActivity(rows, client_id) ==
  LET Sel(k) ==
        /\ rows[k].timestamp_utc >= now - 7 * DAY
        /\ (client_id = <<>> \/ rows[k].client_id = client_id)
      ids == { rows[k].camera_id : k \in {k \in 1..Len(rows) : Sel(k)} }
  IN { [camera_id |-> id, location |-> Location(id),
        count |-> Cardinality({k \in 1..Len(rows) :
                                 Sel(k) /\ rows[k].camera_id = id})] :
       id \in ids }

\* ORDER BY count DESC: the orders the rows can be returned in (rows of
\* equal count come in any order).
OrderByCountDesc(rows) ==
  LET n == Cardinality(rows) IN
  { f \in [1..n -> rows] :
      /\ \A i, j \in 1..n : i # j => f[i] # f[j]
      /\ \A i \in 1..(n - 1) : f[i].count >= f[i + 1].count }

\* The handler with query parameter client_id (empty: no filter).  The
\* queries read the table at the instant now.  camera_activity and downtime
\* are the rows of their queries; GetStats orders the former.
Stats(client_id) ==
  LET Cid(e) == client_id = <<>> \/ e.client_id = client_id
      Vt(e) == e.event_type \in visitorTypes
      \* rows[0].v of SELECT COALESCE(SUM(visitor_count),0) as v ... WHERE Where
      SumColumn(rows, Where(_)) ==
        LET sel == SelectSeq(rows, Where)
        IN COALESCE(SqlSum([k \in 1..Len(sel) |-> sel[k].visitor_count]), 0)
      \* parseInt(x.rows[0].v)
      SumVisitors(rows, Where(_)) == parseInt(SumColumn(rows, Where))
      IstDate(e) == SqlDate(e.timestamp_utc + IST_OFFSET_MS)
      IstHour(e) == SqlHour(e.timestamp_utc + IST_OFFSET_MS)
      today == SqlDate(now - IST_OFFSET_MS)
      Today(e) == IstDate(e) = today /\ Vt(e) /\ Cid(e)
      Yesterday(e) == IstDate(e) = today - 1 /\ Vt(e) /\ Cid(e)
      Week(e) == Vt(e) /\ Cid(e) /\ e.timestamp_utc >= now - 7 * DAY
      \* for (let h=5;h<=22;h++)
      Hourly(n) ==
        LET h == n + 4
            T(e) == IstHour(e) = h /\ Today(e)
            Y(e) == IstHour(e) = h /\ Yesterday(e)
        IN [hour |-> h, today |-> SumVisitors(events, T),
            yesterday |-> SumVisitors(events, Y)]
      \* for (let i=6;i>=0;i--); the label is the day of
      \* new Date(Date.now()+IST_OFFSET_MS) minus i.
      Weekly(n) ==
        LET i == 7 - n
            D(e) == IstDate(e) = today - i /\ Vt(e) /\ Cid(e)
            v == SumColumn(events, D)
        IN [label |-> SqlDate(now + IST_OFFSET_MS) - i,
            \* parseInt(rows[0]?.v||0)
            visitors |-> parseInt(IF v.null THEN SqlInt(0) ELSE v)]
  IN [client_id |-> client_id, at |-> now,
      visitors |-> [today |-> SumVisitors(events, Today),
                    yesterday |-> SumVisitors(events, Yesterday),
                    week |-> SumVisitors(events, Week)],
      camera_activity |-> CameraActivity(events, client_id),
      downtime |-> Downtime(events, client_id),
      trends |-> [hourly |-> [n \in 1..18 |-> Hourly(n)],
                  weekly |-> [n \in 1..7 |-> Weekly(n)]],
      total_events_stored |-> Len(events)]

\* Values of the client_id query parameter.
ClientIds == {<<>>, C01, C02}

GetStats ==
  /\ \E client_id \in ClientIds :
       LET body == Stats(client_id) IN
       \E activity \in OrderByCountDesc(body.camera_activity) :
         stats' = [body EXCEPT !.camera_activity = activity]
  /\ UNCHANGED <<now, societies, cameras, users, events, req, listing, clear, report,
               user_societies, auth>>

\* The handler query by query.  Each pool.query is a statement of its own
\* and reads NOW() when it runs; the handler awaits the six queries of the
\* Promise.all, then each iteration of the hourly loop, then each iteration
\* of the weekly loop, and time passes between them.

\* A request is being served: its first queries ran, its weekly loop has not
\* ended.
StatsInProgress == stats.at # -1 /\ Len(stats.trends.weekly) < 7

\* const [todayR,yestR,weekR,camsR,downR,countR] = await Promise.all([...])
StatsQueries ==
  /\ ~StatsInProgress
  /\ \E client_id \in ClientIds :
       LET body == Stats(client_id) IN
       \E activity \in OrderByCountDesc(body.camera_activity) :
         stats' = [body EXCEPT !.camera_activity = activity,
                               !.trends = [hourly |-> <<>>, weekly |-> <<>>]]
  /\ UNCHANGED <<now, societies, cameras, users, events, req, listing, clear, report,
               user_societies, auth>>

\* An iteration of for (let h=5;h<=22;h++): hourly.push({hour:h, ...})
StatsHourly ==
  /\ StatsInProgress
  /\ Len(stats.trends.hourly) < 18
  /\ LET n == Len(stats.trends.hourly) + 1
     IN stats' = [stats EXCEPT !.trends.hourly =
                    Append(@, Stats(stats.client_id).trends.hourly[n])]
  /\ UNCHANGED <<now, societies, cameras, users, events, req, listing, clear, report,
               user_societies, auth>>

\* An iteration of for (let i=6;i>=0;i--): weekly.push({label, visitors});
\* the response is sent after the last one.
StatsWeekly ==
  /\ StatsInProgress
  /\ Len(stats.trends.hourly) = 18
  /\ LET n == Len(stats.trends.weekly) + 1
     IN stats' = [stats EXCEPT !.trends.weekly =
                    Append(@, Stats(stats.client_id).trends.weekly[n])]
  /\ UNCHANGED <<now, societies, cameras, users, events, req, listing, clear, report,
               user_societies, auth>>

----------------------------------------------------------------------------
\* GET /api/events.

\* limit=200 of the destructuring of req.query.
DefaultLimit == 200

\* The WHERE clause built from the query parameters that are truthy.
Where(e, query) ==
  /\ query.client_id # <<>> => e.client_id = query.client_id
  /\ query.event_type # <<>> => e.event_type = query.event_type
  /\ query.from.kind # "absent" => e.timestamp_ist >= query.from.t
  /\ query.to.kind # "absent" => e.timestamp_ist <= query.to.t

\* An ORDER BY timestamp_ist that is ascending.
OrderByTimestampDesc_ascending(rows, idx) ==
  LET n == Cardinality(idx) IN
  { f \in [1..n -> idx] :
      /\ \A i, j \in 1..n : i # j => f[i] # f[j]
      /\ \A i \in 1..(n - 1) :
            rows[f[i]].timestamp_ist <= rows[f[i + 1]].timestamp_ist }

\* ORDER BY timestamp_ist DESC of the rows of index idx: the orders they can
\* be returned in (rows of equal timestamp_ist come in any order).
OrderByTimestampDesc(rows, idx) ==
  LET n == Cardinality(idx) IN
  { f \in [1..n -> idx] :
      /\ \A i, j \in 1..n : i # j => f[i] # f[j]
      /\ \A i \in 1..(n - 1) :
            rows[f[i]].timestamp_ist >= rows[f[i + 1]].timestamp_ist }

\* The query parameters of the requests: tenant, type, range and limit;
\* limit is absent, a number, or a text parseInt turns into NaN.
Queries ==
  { [client_id |-> c, event_type |-> t, from |-> r[1], to |-> r[2],
     limit |-> l] :
      c \in {<<>>, C02}, t \in {<<>>, person_detected},
      r \in {<<NoText, NoText>>, <<IsoText(900), NoText>>,
              <<NoText, IsoText(900)>>},
      l \in {NoLimit, Limit(1)} }
  \cup { [NoQuery EXCEPT !.limit = Limit(0)],
         [NoQuery EXCEPT !.limit = Limit(NaN)],
         [NoQuery EXCEPT !.to = BadText] }

\* requireAuth for a request with the API key whose x-user-id is uid:
\* req.currentUser is the active user of that id, if any (a set of at most
\* one row).
currentUser(uid) == { u \in users : u.id = uid /\ u.is_active }

\* The handler, for a request whose x-user-id is one of uids.  cid is
\* computed from req.currentUser and used by no statement after it.  The
\* SELECT raises an error for a from / to that is no timestamptz and for a
\* LIMIT that is NaN or negative, and the handler has no try/catch: its
\* promise rejects and no response is sent.
GetEventsAs(uids) ==
  /\ \E uid \in uids, query \in Queries :
       LET limit == IF query.limit.given THEN query.limit.n ELSE DefaultLimit
           idx == { k \in 1..Len(events) : Where(events[k], query) }
           cid == IF \E u \in currentUser(uid) : u.role = "admin"
                    THEN (CHOOSE u \in currentUser(uid) : TRUE).society_id
                    ELSE 0
       IN IF \/ limit < 0
             \/ query.from.kind \in {"bad", "jsonly"}
             \/ query.to.kind \in {"bad", "jsonly"}
            THEN listing' = [NoListing EXCEPT !.status = "thrown", !.uid = uid,
                                              !.cid = cid, !.query = query]
            ELSE \E f \in OrderByTimestampDesc(events, idx) :
                   LET m == IF Cardinality(idx) <= limit
                              THEN Cardinality(idx) ELSE limit
                       rows == [i \in 1..m |-> events[f[i]]]
                   IN listing' = [status |-> "ok", uid |-> uid, cid |-> cid,
                                  query |-> query, total |-> Len(rows),
                                  events |-> rows]
  /\ UNCHANGED <<now, societies, cameras, users, events, req, stats, clear, report,
               user_societies, auth>>

\* The same request without an x-user-id header.
GetEvents == GetEventsAs({0})

----------------------------------------------------------------------------
\* DELETE /api/events.

\* requireAuth and requireRole(...roles) for a request whose x-user-id is
\* uid: the active user of that id has one of the roles.
HasRole(uid, roles) ==
  \E u \in users : u.id = uid /\ u.is_active /\ u.role \in roles

\* Values of the x-user-id header.
UserIds == 1..4

\* SELECT COUNT(*) as total FROM events
ClearCount(uid) ==
  /\ clear.pc = "idle"
  /\ HasRole(uid, {"superuser"})
  /\ clear' = [clear EXCEPT !.pc = "counted", !.total = Len(events)]
  /\ UNCHANGED <<now, societies, cameras, users, events, req, stats, listing, report,
               user_societies, auth>>

\* DELETE FROM events, and the response { cleared: total }.
ClearDelete ==
  /\ clear.pc = "counted"
  /\ events' = <<>>
  /\ clear' = [clear EXCEPT !.pc = "done", !.removed = Len(events),
                            !.cleared = clear.total]
  /\ UNCHANGED <<now, societies, cameras, users, req, stats, listing, report,
               user_societies, auth>>

----------------------------------------------------------------------------
\* The registry routes: cameras, societies, users.  Each requires the role
\* superuser.

\* The value a SERIAL id column takes (exact while the row of the greatest
\* id is not deleted).
NextId(rows) ==
  1 + (CHOOSE n \in {r.id : r \in rows} \cup {0} :
         \A r \in rows : r.id <= n)

GateA == <<"G","a","t","e"," ","A">>
x9 == <<"x","9">>

\* POST /api/cameras: 400 without camera_uid or name, 400 when the INSERT
\* violates UNIQUE (camera_uid).
CreateCamera(uid, cameraUid, name) ==
  /\ HasRole(uid, {"superuser"})
  /\ cameraUid # <<>> /\ name # <<>>
  /\ ~\E c \in cameras : c.camera_uid = cameraUid
  /\ cameras' = cameras \cup
       {[id |-> NextId(cameras), camera_uid |-> cameraUid, name |-> name]}
  /\ UNCHANGED <<now, societies, users, events, req, stats, listing, clear, report,
               user_societies, auth>>

\* A PUT /api/cameras/:id that rewrites the camera_location of the events of
\* the camera.
UpdateCamera_retroactive(uid, id, name) ==
  /\ HasRole(uid, {"superuser"})
  /\ cameras' = { IF c.id = id THEN [c EXCEPT !.name = name] ELSE c :
                    c \in cameras }
  /\ events' = [k \in 1..Len(events) |->
                  IF \E c \in cameras :
                       c.id = id /\ c.camera_uid = events[k].camera_id
                    THEN [events[k] EXCEPT !.camera_location = name]
                    ELSE events[k]]
  /\ UNCHANGED <<now, societies, users, req, stats, listing, clear, report,
               user_societies, auth>>

\* PUT /api/cameras/:id with a name: UPDATE cameras SET
\* name=COALESCE($1,name),... WHERE id=$6
UpdateCamera(uid, id, name) ==
  /\ HasRole(uid, {"superuser"})
  /\ cameras' = { IF c.id = id THEN [c EXCEPT !.name = name] ELSE c :
                    c \in cameras }
  /\ UNCHANGED <<now, societies, users, events, req, stats, listing, clear, report,
               user_societies, auth>>

\* DELETE /api/cameras/:id
DeleteCamera(uid, id) ==
  /\ HasRole(uid, {"superuser"})
  /\ cameras' = { c \in cameras : c.id # id }
  /\ UNCHANGED <<now, societies, users, events, req, stats, listing, clear, report,
               user_societies, auth>>

\* POST /api/societies: the code is stored in upper case; 400 when the
\* INSERT violates UNIQUE (code).
CreateSociety(uid, code) ==
  /\ HasRole(uid, {"superuser"})
  /\ code # <<>>
  /\ ~\E c \in societies : c.code = toUpperCase(code)
  /\ societies' = societies \cup
       {[id |-> NextId(societies), code |-> toUpperCase(code)]}
  /\ UNCHANGED <<now, cameras, users, events, req, stats, listing, clear, report,
               user_societies, auth>>

\* DELETE /api/societies/:id ; users.society_id is ON DELETE SET NULL,
\* user_societies.society_id ON DELETE CASCADE.
DeleteSociety(uid, id) ==
  /\ HasRole(uid, {"superuser"})
  /\ societies' = { c \in societies : c.id # id }
  /\ users' = { IF u.society_id = id THEN [u EXCEPT !.society_id = 0] ELSE u :
                  u \in users }
  /\ user_societies' = { a \in user_societies : a[2] # id }
  /\ UNCHANGED <<now, cameras, events, req, stats, listing, clear, report, auth>>

\* DELETE /api/users/:id : UPDATE users SET is_active=false WHERE id=$1
DeactivateUser(uid, id) ==
  /\ HasRole(uid, {"superuser"})
  /\ users' = { IF u.id = id THEN [u EXCEPT !.is_active = FALSE] ELSE u :
                  u \in users }
  /\ UNCHANGED <<now, societies, cameras, events, req, stats, listing, clear, report,
               user_societies, auth>>

----------------------------------------------------------------------------
\* The daily report: scheduleDailyReport and sendDailyReports.

\* A whole day passes.
TickDay ==
  /\ now + DAY <= MaxDays * DAY
  /\ now' = now + DAY
  /\ UNCHANGED <<societies, cameras, users, events, req, stats, listing, clear, report,
               user_societies, auth>>

\* SELECT u.email,u.name,s.name as society_name,s.code FROM users u JOIN
\* societies s ON u.society_id=s.id WHERE u.role='admin' AND u.is_active=true
Admins ==
  { [username |-> p[1].username, code |-> p[2].code] :
      p \in { p \in users \X societies :
                /\ p[1].society_id = p[2].id
                /\ p[1].role = "admin" /\ p[1].is_active } }

\* The orders a query without ORDER BY can return its rows in.
AnyOrder(rows) ==
  { f \in [1..Cardinality(rows) -> rows] :
      \A i, j \in 1..Cardinality(rows) : i # j => f[i] # f[j] }

\* A run of sendDailyReports: pc is its position (at the await of the
\* admins query, of the Promise.all of an admin, of sendEmail, or finished),
\* admins the rows of the first query, i the index of the for loop.
\* History: attempted lists the reports handed to sendEmail, failed the
\* indices of the admins a query of whose report failed, logged counts the
\* "Daily report error" lines.
NewRun ==
  [pc |-> "select", admins |-> <<>>, i |-> 1, today |-> 0, yest |-> 0,
   attempted |-> <<>>, failed |-> {}, logged |-> 0]

\* The pending timer fires: the setTimeout callback calls sendDailyReports
\* and setInterval(sendDailyReports, 24 h); each interval firing calls
\* sendDailyReports.  The call runs up to its first await.
FireTimer ==
  /\ now >= report.due
  /\ Len(report.runs) < MaxRuns
  /\ report' = [timer |-> "interval", set |-> now, due |-> now + DAY,
                runs |-> Append(report.runs, NewRun)]
  /\ UNCHANGED <<now, societies, cameras, users, events, req, stats, listing, clear,
               user_societies, auth>>

\* catch (err) { console.error("Daily report error:", ...) } around the whole
\* function body.
Catch(run) == [run EXCEPT !.pc = "done", !.logged = run.logged + 1]

\* The admins query returns or fails.
RunSelect(outcomes) ==
  /\ \E r \in 1..Len(report.runs), ok \in outcomes :
       /\ report.runs[r].pc = "select"
       /\ IF ok
            THEN \E admins \in AnyOrder(Admins) :
                   report' = [report EXCEPT !.runs[r] =
                     [@ EXCEPT !.admins = admins,
                               !.pc = IF admins = <<>> THEN "done" ELSE "aggregate"]]
            ELSE report' = [report EXCEPT !.runs[r] = Catch(@)]
  /\ UNCHANGED <<now, societies, cameras, users, events, req, stats, listing, clear,
               user_societies, auth>>

\* The Promise.all of the four queries of admins[i] returns or fails.
RunAggregate(outcomes) ==
  /\ \E r \in 1..Len(report.runs), ok \in outcomes :
       LET run == report.runs[r] IN
       /\ run.pc = "aggregate"
       /\ IF ok
            THEN LET v == Stats(run.admins[run.i].code).visitors
                 IN report' = [report EXCEPT !.runs[r] =
                      [@ EXCEPT !.pc = "email", !.today = v.today,
                                !.yest = v.yesterday]]
            ELSE report' = [report EXCEPT !.runs[r] =
                             [Catch(@) EXCEPT !.failed = @ \cup {run.i}]]
  /\ UNCHANGED <<now, societies, cameras, users, events, req, stats, listing, clear,
               user_societies, auth>>

\* await sendEmail(...) returns: sendEmail catches the errors of the
\* provider (delivered FALSE).  Then the loop goes on, or the run ends.
RunEmail(outcomes) ==
  /\ \E r \in 1..Len(report.runs), ok \in outcomes :
       LET run == report.runs[r] IN
       /\ run.pc = "email"
       /\ report' = [report EXCEPT !.runs[r] =
            [@ EXCEPT !.attempted =
                        Append(@, [code |-> run.admins[run.i].code,
                                   today |-> run.today, yest |-> run.yest,
                                   delivered |-> ok]),
                      !.i = run.i + 1,
                      !.pc = IF run.i + 1 > Len(run.admins)
                               THEN "done" ELSE "aggregate"]]
  /\ UNCHANGED <<now, societies, cameras, users, events, req, stats, listing, clear,
               user_societies, auth>>

----------------------------------------------------------------------------
\* scheduleDailyReport at process start.

\* next.setUTCHours(3,30,0,0), in minutes of the day.
ReportTime == 210

\* A scheduleDailyReport that never moves next to the following day.
scheduleDailyReport_sameDay(t, t2) ==
  [timer |-> "timeout", set |-> t, due |-> SqlDate(t2) * DAY + ReportTime,
   runs |-> <<>>]

\* const now = new Date() read at t, const next = new Date() read at t2;
\* the setTimeout of next - now is due at next.
scheduleDailyReport(t, t2) ==
  LET next == SqlDate(t2) * DAY + ReportTime
  IN [timer |-> "timeout", set |-> t,
      due |-> IF next <= t THEN next + DAY ELSE next,
      runs |-> <<>>]

\* Instants the process starts at: 00:00, 03:29, 03:30, 03:31, 09:30 and
\* 23:59 UTC.
StartInstants == {0, 209, 210, 211, 570, 1439}

\* The state after initDB and scheduleDailyReport of a process started at
\* one of the instants.
InitSchedule ==
  /\ \E t \in StartInstants, t2 \in {0, 1} :
       /\ now = t
       /\ report = scheduleDailyReport(t, t + t2)
  /\ societies = SeedSocieties
  /\ cameras = SeedCameras
  /\ users = SeedUsers
  /\ user_societies =
       { <<u.id, u.society_id>> : u \in { u \in SeedUsers : u.society_id # 0 } }
  /\ events = <<>>
  /\ req = [q \in Reqs |-> IdleReq]
  /\ stats = NoStats
  /\ listing = NoListing
  /\ clear = IdleClear
  /\ auth = NoAuth

\* Time passes until the pending timer is due (the event loop, idle between
\* requests, calls the callback then).
Wait ==
  /\ now < report.due
  /\ now' = report.due
  /\ UNCHANGED <<societies, cameras, users, user_societies, events, req, stats,
               listing, clear, report, auth>>

----------------------------------------------------------------------------
\* Users and invites: POST /api/users, resend-invite, POST /api/set-password,
\* POST /api/login, and the clean-up of initDB at a restart.

\* The rows that reference a deleted user are deleted with it (ON DELETE
\* CASCADE of user_societies.user_id).
DeleteUsers(gone) ==
  /\ users' = users \ gone
  /\ user_societies' = { a \in user_societies : ~\E u \in gone : u.id = a[1] }

\* crypto.randomBytes(32).toString("hex"): a value no earlier invite has.
NewToken == Len(auth.issued) + 1

\* POST /api/users with all fields given and society_ids an array of ids of
\* societies.  The pre-check deletes the rows of the username or the
\* e-mail that have no password, in the order the SELECT returns them, and
\* answers 400 at the first row that has one; then the INSERT (society_id
\* is not among its columns), the rows of user_societies and the invite.
\* The id is the next value of the SERIAL.
CreateUser(uid, username, email, role, sids) ==
  LET check == { u \in users : u.username = username \/ u.email = email }
      stuck == { u \in check : ~u.password }
      id == 5 + Len(auth.issued)
  IN
  /\ HasRole(uid, {"superuser"})
  /\ Len(auth.issued) < MaxInvites
  /\ \A sid \in sids : \E c \in societies : c.id = sid
  /\ IF check \ stuck # {}
       THEN /\ \E gone \in SUBSET stuck : DeleteUsers(gone)
            /\ auth' = auth
       ELSE /\ users' = (users \ stuck) \cup
                 { [User(id, username, email, role, 0) EXCEPT
                      !.password = FALSE, !.invite_token = NewToken,
                      !.invite_expires = now + DAY, !.created_at = now] }
            /\ user_societies' =
                 { a \in user_societies : ~\E u \in stuck : u.id = a[1] }
                 \cup { <<id, sid>> : sid \in sids }
            /\ auth' = [auth EXCEPT !.issued =
                          Append(@, [token |-> NewToken, user |-> id,
                                     username |-> username, at |-> now])]
  /\ UNCHANGED <<now, societies, cameras, events, req, stats, listing, clear,
               report>>

\* POST /api/users/:id/resend-invite: UPDATE users SET invite_token=$1,
\* invite_expires=$2 WHERE id=$3 ; 404 when there is no such row.
ResendInvite(uid, id) ==
  /\ HasRole(uid, {"superuser"})
  /\ Len(auth.issued) < MaxInvites
  /\ \E u \in users : u.id = id
  /\ users' = { IF u.id = id
                  THEN [u EXCEPT !.invite_token = NewToken,
                                 !.invite_expires = now + DAY]
                  ELSE u : u \in users }
  /\ auth' = [auth EXCEPT !.issued =
                Append(@, [token |-> NewToken, user |-> id,
                           username |-> (CHOOSE u \in users : u.id = id).username,
                           at |-> now])]
  /\ UNCHANGED <<now, societies, cameras, user_societies, events, req, stats,
               listing, clear, report>>

\* POST /api/set-password up to the answer to SELECT * FROM users WHERE
\* invite_token=$1 AND invite_expires>NOW() ; 400 when there is no row.
SetPasswordSelect(token) ==
  LET rows == { u \in users : u.invite_token = token /\ u.invite_expires > now }
  IN
  /\ auth.pc = "idle"
  /\ token # 0
  /\ IF rows = {}
       THEN auth' = [auth EXCEPT !.token = token, !.id = 0, !.status = "rejected"]
       ELSE \E u \in rows :
              auth' = [auth EXCEPT !.pc = "update", !.token = token, !.id = u.id,
                                   !.status = "none"]
  /\ UNCHANGED <<now, societies, cameras, users, user_societies, events, req,
               stats, listing, clear, report>>

\* A set-password that leaves the invite token of the row as it is.
SetPasswordUpdate_keepToken ==
  /\ auth.pc = "update"
  /\ users' = { IF u.id = auth.id THEN [u EXCEPT !.password = TRUE] ELSE u :
                  u \in users }
  /\ auth' = [auth EXCEPT !.pc = "idle", !.status = "ok",
                          !.used = @ \cup {auth.token}]
  /\ UNCHANGED <<now, societies, cameras, user_societies, events, req, stats,
               listing, clear, report>>

\* UPDATE users SET password_hash=$1,invite_token=NULL,invite_expires=NULL
\* WHERE id=$2, and the response "Password set! You can now log in."
SetPasswordUpdate ==
  /\ auth.pc = "update"
  /\ users' = { IF u.id = auth.id
                  THEN [u EXCEPT !.password = TRUE, !.invite_token = 0,
                                 !.invite_expires = 0]
                  ELSE u : u \in users }
  /\ auth' = [auth EXCEPT !.pc = "idle", !.status = "ok",
                          !.used = @ \cup {auth.token}]
  /\ UNCHANGED <<now, societies, cameras, user_societies, events, req, stats,
               listing, clear, report>>

\* POST /api/login with a username and a password; match tells whether
\* bcrypt.compare finds the password to be the one of the hash.
Login(username, match) ==
  LET rows == { u \in users : u.username = username /\ u.is_active }
  IN
  /\ auth' = [auth EXCEPT !.login =
                [username |-> username,
                 status |-> IF \E u \in rows : u.password /\ match
                              THEN "ok" ELSE "rejected"]]
  /\ UNCHANGED <<now, societies, cameras, users, user_societies, events, req,
               stats, listing, clear, report>>

\* The process restarts: initDB deletes the users WHERE password_hash IS
\* NULL AND invite_token IS NOT NULL AND created_at < NOW() - INTERVAL
\* '1 minute', the requests being handled and the timers are lost, and
\* scheduleDailyReport sets the timer.  (The INSERT of the society_id of
\* each user into user_societies finds every such row present.)
Restart ==
  /\ DeleteUsers({ u \in users :
                     ~u.password /\ u.invite_token # 0 /\ u.created_at < now - 1 })
  /\ req' = [q \in Reqs |-> IdleReq]
  /\ clear' = IdleClear
  /\ auth' = [auth EXCEPT !.pc = "idle"]
  /\ \E t2 \in {now, now + 1} : report' = scheduleDailyReport(now, t2)
  /\ UNCHANGED <<now, societies, cameras, events, stats, listing>>

----------------------------------------------------------------------------
\* Specifications.

\* One webhook request with an unreliable store.
Next ==
  \/ Receive(1, Bodies(CuratedRaw, MaxBatch))
  \/ ResolveSociety(1, Unreliable)
  \/ ResolveCamera(1, Unreliable)
  \/ InsertEvent(1, Unreliable)
  \/ Respond(1)

Spec == Init /\ [][Next]_vars

\* Concurrently handled webhook requests of one event each, among them
\* retried deliveries.
NextConcurrent ==
  \/ \E q \in Reqs : Receive(q, Bodies(RetriedRaw, 1))
  \/ \E q \in Reqs : ResolveSociety(q, Available)
  \/ \E q \in Reqs : ResolveCamera(q, Available)
  \/ \E q \in Reqs : InsertEvent(q, Available)
  \/ \E q \in Reqs : Respond(q)

SpecConcurrent == Init /\ [][NextConcurrent]_vars

\* Ingestion and statistics over the days.
NextStats ==
  \/ Receive(1, Bodies(TimedRaw, MaxSmallBatch))
  \/ ResolveSociety(1, Available)
  \/ ResolveCamera(1, Available)
  \/ InsertEvent(1, Available)
  \/ Respond(1)
  \/ Tick
  \/ GetStats

SpecStats == Init /\ [][NextStats]_vars

\* The normalisation of one element, over the shapes of vendor payloads.
NextIngest ==
  \/ Receive(1, Bodies(WideRaw, 1))
  \/ ResolveSociety(1, Available)
  \/ ResolveCamera(1, Available)
  \/ InsertEvent(1, Available)
  \/ Respond(1)

SpecIngest == Init /\ [][NextIngest]_vars

\* Ingestion of events of the last week and the statistics over the days.
NextTrends ==
  \/ Receive(1, Bodies(TrendRaw, MaxSmallBatch))
  \/ ResolveSociety(1, Available)
  \/ ResolveCamera(1, Available)
  \/ InsertEvent(1, Available)
  \/ Respond(1)
  \/ Tick
  \/ GetStats

SpecTrends == Init /\ [][NextTrends]_vars

\* Events of two tenants, the statistics of each, and the bulk clear.
NextTenants ==
  \/ Receive(1, Bodies(TenantRaw, MaxSmallBatch))
  \/ ResolveSociety(1, Available)
  \/ ResolveCamera(1, Available)
  \/ InsertEvent(1, Available)
  \/ Respond(1)
  \/ \E uid \in UserIds : ClearCount(uid)
  \/ ClearDelete
  \/ GetStats

SpecTenants == Init /\ [][NextTenants]_vars

\* Ingestion and the event listing.
NextEvents ==
  \/ Receive(1, Bodies(TimedRaw, MaxSmallBatch))
  \/ ResolveSociety(1, Available)
  \/ ResolveCamera(1, Available)
  \/ InsertEvent(1, Available)
  \/ Respond(1)
  \/ GetEvents

SpecEvents == Init /\ [][NextEvents]_vars

\* Ingestion while the registry is edited, and the bulk clear.
NextRegistry ==
  \/ Receive(1, Bodies(RegistryRaw, MaxSmallBatch))
  \/ ResolveSociety(1, Available)
  \/ ResolveCamera(1, Available)
  \/ InsertEvent(1, Available)
  \/ Respond(1)
  \/ \E uid \in UserIds : CreateCamera(uid, cam93518, GateA)
  \/ \E uid \in UserIds : UpdateCamera(uid, 1, GateA)
  \/ \E uid \in UserIds : DeleteCamera(uid, 1)
  \/ \E uid \in UserIds : CreateSociety(uid, x9)
  \/ \E uid \in UserIds : DeleteSociety(uid, 2)
  \/ \E uid \in UserIds : DeactivateUser(uid, 3)
  \/ \E uid \in UserIds : ClearCount(uid)
  \/ ClearDelete

SpecRegistry == Init /\ [][NextRegistry]_vars

\* The daily report over the days, with an unreliable store and e-mail
\* provider.
NextReports ==
  \/ Tick
  \/ TickDay
  \/ FireTimer
  \/ RunSelect(Unreliable)
  \/ RunAggregate(Unreliable)
  \/ RunEmail(Unreliable)

SpecReports == Init /\ [][NextReports]_vars

\* Outages and recoveries of a camera, and the statistics.
NextDowntime ==
  \/ Receive(1, Bodies(DowntimeRaw, MaxSmallBatch))
  \/ ResolveSociety(1, Available)
  \/ ResolveCamera(1, Available)
  \/ InsertEvent(1, Available)
  \/ Respond(1)
  \/ GetStats

SpecDowntime == Init /\ [][NextDowntime]_vars

\* Users are created and activated while the daily report runs.
NextUsers ==
  \/ \E uid \in UserIds, role \in {"admin", "operator"}, sids \in {{}, {3}} :
       CreateUser(uid, "manager", "manager@sunrise.com", role, sids)
  \/ \E token \in 1..MaxInvites : SetPasswordSelect(token)
  \/ SetPasswordUpdate
  \/ Tick
  \/ FireTimer
  \/ RunSelect(Available)
  \/ RunAggregate(Available)
  \/ RunEmail(Available)

SpecUsers == Init /\ [][NextUsers]_vars

\* One event of each kind of integration while societies are created and
\* deleted.
NextResolve ==
  \/ Receive(1, Bodies(ResolveRaw, 1))
  \/ ResolveSociety(1, Available)
  \/ ResolveCamera(1, Available)
  \/ InsertEvent(1, Available)
  \/ Respond(1)
  \/ \E uid \in UserIds : CreateSociety(uid, x9)
  \/ \E uid \in UserIds, id \in {1, 2} : DeleteSociety(uid, id)

SpecResolve == Init /\ [][NextResolve]_vars

\* The timers of the daily report of a process started at any time.
NextSchedule ==
  \/ Wait
  \/ FireTimer
  \/ RunSelect(Available)
  \/ RunAggregate(Available)
  \/ RunEmail(Available)

SpecSchedule == InitSchedule /\ [][NextSchedule]_vars

\* Invites are issued, resent and accepted in the course of a day, the
\* invited user logs in, and the process restarts.
NextInvites ==
  \/ \E uid \in UserIds :
       CreateUser(uid, "manager", "manager@sunrise.com", "admin", {3})
  \/ \E uid \in UserIds, u \in users : ResendInvite(uid, u.id)
  \/ \E token \in 1..MaxInvites : SetPasswordSelect(token)
  \/ SetPasswordUpdate
  \/ \E match \in BOOLEAN : Login("manager", match)
  \/ Restart
  \/ Tick

SpecInvites == Init /\ [][NextInvites]_vars

\* Ingestion and the event listing requested by every user and by none.
NextListing ==
  \/ Receive(1, Bodies(TimedRaw, 1))
  \/ ResolveSociety(1, Available)
  \/ ResolveCamera(1, Available)
  \/ InsertEvent(1, Available)
  \/ Respond(1)
  \/ GetEventsAs(UserIds \cup {0})

SpecListing == Init /\ [][NextListing]_vars

\* The statistics computed query by query as time passes, with events
\* ingested between the requests and none during one.
NextSnapshot ==
  \/ ~StatsInProgress /\ Receive(1, Bodies(TrendRaw, 1))
  \/ ResolveSociety(1, Available)
  \/ ResolveCamera(1, Available)
  \/ ~StatsInProgress /\ InsertEvent(1, Available)
  \/ Respond(1)
  \/ Tick
  \/ StatsQueries
  \/ StatsHourly
  \/ StatsWeekly

SpecSnapshot == Init /\ [][NextSnapshot]_vars

----------------------------------------------------------------------------
\* Properties.

\* The timestamp a raw element resolves to is an Invalid Date: the first
\* present of data.startTimeUtc and timestamp_utc is unparseable.
Unparseable(raw) ==
  OrTs(raw.startTimeUtc, OrTs(raw.timestamp_utc, IsoText(0))).kind = "bad"

\* C1: whatever the interleaving of concurrently handled webhook requests,
\* no two stored events share an event_uid; an INSERT of a present event_uid
\* changes no row and raises no error.
C1_UniqueEventUid ==
  /\ \A i, j \in 1..Len(events) :
       i # j => events[i].event_uid # events[j].event_uid
  /\ \A q \in Reqs : req[q].errors = 0 /\ ~req[q].failed
  /\ \A q \in Reqs : req[q].added + req[q].noops = req[q].processed

\* C1 witness: while the first request is still being handled, the INSERT of
\* the second one found the event_uid the first one had stored.
C1_Witness ==
  /\ req[1].added >= 1 /\ req[1].pc \in {"loop", "camera", "insert"}
  /\ req[2].noops >= 1
  /\ Len(events) = 1

\* C2: a vendor event delivered more than once (same camera identifier, same
\* vendor event id) is stored at most once.
C2_RetriedStoredOnce ==
  \A i, j \in 1..Len(events) :
    (/\ i # j
     /\ events[i].source_id # <<>>
     /\ events[i].source_id = events[j].source_id
     /\ events[i].camera_id = events[j].camera_id) => FALSE

\* C3: `received` of a response is the number of events the request added
\* to the store.
C3_ReceivedIsAdded ==
  \A q \in Reqs : req[q].pc = "done" => req[q].received = req[q].added

C5_SkipsDoNotBlock ==
  \A q \in Reqs :
    (req[q].pc = "done" /\ ~req[q].failed) =>
      LET N == Len(req[q].body)
          k == Cardinality({i \in 1..N : Unparseable(req[q].body[i])})
      IN /\ req[q].received = N - k
         /\ req[q].added + req[q].noops = N - k
         /\ req[q].skipped = k

\* C5 witness: a batch of 3 whose second element has an invalid timestamp is
\* answered with received 2, both other events being stored.
C5_Witness ==
  /\ req[1].pc = "done" /\ ~req[1].failed
  /\ Len(req[1].body) = 3
  /\ ~Unparseable(req[1].body[1])
  /\ Unparseable(req[1].body[2])
  /\ ~Unparseable(req[1].body[3])
  /\ req[1].received = 2
  /\ Len(events) = 2

\* C6: a request whose elements are all objects is never abandoned when a
\* query fails: the failure is logged, the loop goes on and the 200 response
\* is sent.
C6_FailureTolerated ==
  \A q \in Reqs :
    (\A i \in 1..Len(req[q].body) : req[q].body[i].kind # "null") =>
      /\ req[q].pc # "thrown"
      /\ req[q].failed => req[q].errors >= 1

\* C7: with the store available, the handler never throws, whatever the
\* element is: every element is stored or skipped and the response is sent.
C7_NeverThrows ==
  /\ req[1].pc # "thrown"
  /\ req[1].pc = "done" =>
       req[1].processed + req[1].skipped + req[1].errors = Len(req[1].body)

\* C8: the event_type of a stored event whose raw type does not contain
\* "analytic" is the canonical type of the first rule, in the fixed order,
\* one of whose keywords the lowercased raw type contains; the lowercased
\* raw type when no rule matches; "unknown" when the element has no type.  A
\* type that contains "disconnect" is never camera_online.
C8_FirstRuleWins ==
  LET Rules ==
        << [kw |-> {kw_motion, kw_person, kw_people}, type |-> person_detected],
           [kw |-> {kw_vehicle, kw_car, kw_alpr}, type |-> vehicle_detected],
           [kw |-> {kw_crowd}, type |-> crowd_detected],
           [kw |-> {kw_loiter}, type |-> loitering],
           [kw |-> {kw_offline, kw_disconnect}, type |-> camera_offline],
           [kw |-> {kw_online, kw_connect}, type |-> camera_online] >>
      Matches(t, n) == \E kw \in Rules[n].kw : includes(t, kw)
      Expected(t) ==
        IF \E n \in 1..6 : Matches(t, n)
          THEN Rules[CHOOSE n \in 1..6 :
                       Matches(t, n) /\ \A m \in 1..(n - 1) : ~Matches(t, m)].type
          ELSE t
  IN \A k \in 1..Len(events) :
       LET t == toLowerCase(events[k].event_type_raw)
           raw == req[1].body[1]
       IN ~includes(t, analytic) =>
            /\ events[k].event_type = Expected(t)
            /\ (raw.type = <<>> /\ raw.event_type = <<>>) =>
                 events[k].event_type = unknown
            /\ includes(t, kw_disconnect) => events[k].event_type # camera_online

\* C8 witness: "CameraDisconnectEvent" is stored as camera_offline.
C8_Witness ==
  /\ Len(events) = 1
  /\ events[1].event_type_raw = t_CameraDisconnectEvent
  /\ events[1].event_type = camera_offline

C10_TodayIsIstToday ==
  [][ stats' # stats =>
        LET cid == stats'.client_id
            istToday == (now + 330) \div 1440
            On(d) == [k \in 1..Len(events) |->
                        IF /\ events[k].event_type \in
                                {person_detected, vehicle_detected, crowd_detected}
                           /\ (cid = <<>> \/ events[k].client_id = cid)
                           /\ (events[k].timestamp_utc + 330) \div 1440 = d
                          THEN events[k].visitor_count ELSE 0]
        IN /\ stats'.visitors.today = Sum(On(istToday))
           /\ stats'.visitors.yesterday = Sum(On(istToday - 1)) ]_vars

\* C11: visitors.week of a stats response is the sum of visitor_count over
\* the visitor-class events of the tenant whose IST date is one of the 7 IST
\* dates that end with the IST date of now, and so the sum of the seven
\* trends.weekly buckets of the same response.
C11_WeekIsSevenIstDays ==
  [][ stats' # stats =>
        LET cid == stats'.client_id
            istToday == (now + 330) \div 1440
            InWeek == [k \in 1..Len(events) |->
                         IF /\ events[k].event_type \in
                                 {person_detected, vehicle_detected, crowd_detected}
                            /\ (cid = <<>> \/ events[k].client_id = cid)
                            /\ (events[k].timestamp_utc + 330) \div 1440
                                 \in (istToday - 6)..istToday
                           THEN events[k].visitor_count ELSE 0]
        IN /\ stats'.visitors.week = Sum(InWeek)
           /\ stats'.visitors.week =
                Sum([n \in 1..7 |-> stats'.trends.weekly[n].visitors]) ]_vars

\* C12: the visitors, camera_activity, downtime and trends of the statistics
\* of a tenant X depend on the stored events of client_id X alone: a step
\* that adds or removes (bulk clear) events of other tenants only leaves them
\* as they are.
C12_TenantIsolation ==
  [][ events' # events =>
        \A X \in {C01, C02} :
          LET Mine(e) == e.client_id = X
              Parts(s) == <<s.visitors, s.camera_activity, s.downtime, s.trends>>
          IN SelectSeq(events', Mine) = SelectSeq(events, Mine) =>
               Parts(Stats(X))' = Parts(Stats(X)) ]_vars

\* C12 witness: the statistics of C02 were taken while the store held an
\* event of C01 and an event of C02, and count the latter alone.
C12_Witness ==
  /\ stats.client_id = C02
  /\ stats.total_events_stored = 2
  /\ Len(events) = 2
  /\ events[1].client_id = C01 /\ events[1].visitor_count = 1
  /\ events[2].client_id = C02
  /\ stats.visitors.week = 0
  /\ Len(stats.camera_activity) = 1
  /\ stats.camera_activity[1].camera_id = cam777
  /\ \A d \in stats.downtime : d.camera_id = cam777 /\ d.incidents = 1

\* C13: every sum and count of a stats response is a natural number (never
\* null or NaN); the response for a tenant without events has visitors
\* {0, 0, 0}, no camera_activity and no downtime rows, and 0 in each of
\* its 18 hourly and 7 weekly buckets.
C13_SumsAreNumbers ==
  [][ stats' # stats =>
        LET s == stats'
            cid == s.client_id
            none == ~\E k \in 1..Len(events) :
                       cid = <<>> \/ events[k].client_id = cid
        IN /\ s.visitors.today \in Nat
           /\ s.visitors.yesterday \in Nat
           /\ s.visitors.week \in Nat
           /\ s.total_events_stored \in Nat
           /\ \A n \in 1..Len(s.trends.hourly) :
                 /\ s.trends.hourly[n].today \in Nat
                 /\ s.trends.hourly[n].yesterday \in Nat
           /\ \A n \in 1..Len(s.trends.weekly) :
                 s.trends.weekly[n].visitors \in Nat
           /\ \A n \in 1..Len(s.camera_activity) :
                 s.camera_activity[n].count \in Nat
           /\ \A d \in s.downtime :
                 d.incidents \in Nat /\ d.downtime_minutes \in Nat
           /\ none =>
                 /\ s.visitors = [today |-> 0, yesterday |-> 0, week |-> 0]
                 /\ s.camera_activity = <<>>
                 /\ s.downtime = {}
                 /\ Len(s.trends.hourly) = 18
                 /\ \A n \in 1..18 :
                       /\ s.trends.hourly[n].today = 0
                       /\ s.trends.hourly[n].yesterday = 0
                 /\ Len(s.trends.weekly) = 7
                 /\ \A n \in 1..7 : s.trends.weekly[n].visitors = 0 ]_vars

\* C13 witness: the statistics of C02 were taken while the store held an
\* event of C01 alone, and are all 0 and empty.
C13_Witness ==
  /\ stats.client_id = C02
  /\ stats.total_events_stored = 1
  /\ Len(events) = 1 /\ events[1].client_id = C01
  /\ stats.visitors = [today |-> 0, yesterday |-> 0, week |-> 0]
  /\ stats.camera_activity = <<>>
  /\ stats.downtime = {}
  /\ \A n \in 1..18 : stats.trends.hourly[n].today = 0

\* C14: trends.hourly of a stats response has the 18 buckets of the hours
\* 5..22 in ascending order, and the today / yesterday value of the bucket
\* of hour h is the sum of visitor_count over the visitor-class events of the
\* tenant whose IST hour is h and whose IST date is the IST date of now / the
\* date before it.
C14_HourlyBuckets ==
  [][ stats' # stats =>
        LET s == stats'
            cid == s.client_id
            istToday == (now + 330) \div 1440
            On(d, h) == [k \in 1..Len(events) |->
                           IF /\ events[k].event_type \in
                                   {person_detected, vehicle_detected, crowd_detected}
                              /\ (cid = <<>> \/ events[k].client_id = cid)
                              /\ (events[k].timestamp_utc + 330) \div 1440 = d
                              /\ ((events[k].timestamp_utc + 330) % 1440) \div 60 = h
                             THEN events[k].visitor_count ELSE 0]
        IN /\ Len(s.trends.hourly) = 18
           /\ \A n \in 1..18 :
                 /\ s.trends.hourly[n].hour = n + 4
                 /\ s.trends.hourly[n].today = Sum(On(istToday, n + 4))
                 /\ s.trends.hourly[n].yesterday = Sum(On(istToday - 1, n + 4)) ]_vars

\* C15: each downtime row of a stats response has incidents = the number of
\* stored camera_offline events of the tenant for the camera and
\* downtime_minutes = 30 x incidents, there is one row for each camera that
\* has such an event, and storing a camera_online event changes no downtime
\* row of any tenant.
C15_FixedNominalDowntime ==
  [][ /\ stats' # stats =>
           LET s == stats'
               cid == s.client_id
               Off(k) == /\ events[k].event_type = camera_offline
                         /\ (cid = <<>> \/ events[k].client_id = cid)
           IN /\ \A d \in s.downtime :
                    /\ d.incidents =
                         Cardinality({k \in 1..Len(events) :
                                        Off(k) /\ events[k].camera_id = d.camera_id})
                    /\ d.incidents >= 1
                    /\ d.downtime_minutes = 30 * d.incidents
              /\ \A k \in 1..Len(events) :
                    Off(k) => \E d \in s.downtime : d.camera_id = events[k].camera_id
              /\ \A d1, d2 \in s.downtime : d1.camera_id = d2.camera_id => d1 = d2
      /\ (/\ Len(events') = Len(events) + 1
          /\ events'[Len(events')].event_type = camera_online) =>
           \A cid \in {<<>>, C01, C02} :
             Downtime(events', cid) = Downtime(events, cid) ]_vars

\* C15 witness: an outage and the recovery of camera 777 are stored, and the
\* statistics taken after both show 1 incident of 30 minutes.
C15_Witness ==
  /\ Len(events) = 2
  /\ events[1].event_type = camera_offline /\ events[1].camera_id = cam777
  /\ events[2].event_type = camera_online /\ events[2].camera_id = cam777
  /\ stats.total_events_stored = 2
  /\ \E d \in stats.downtime :
        d.camera_id = cam777 /\ d.incidents = 1 /\ d.downtime_minutes = 30

\* C16: a GET /api/events whose limit is absent or a natural number and
\* whose from / to are absent or timestamps is answered, with exactly the
\* stored events that satisfy all the filters given (client_id and event_type
\* equal, timestamp_ist >= from, timestamp_ist <= to), newest timestamp_ist
\* first, cut to the first `limit` of them (200 when no limit is given).
C16_FilteredNewestFirst ==
  [][ listing' # listing =>
        LET q == listing'.query
            out == listing'.events
            Sat(e) ==
              /\ (q.client_id = <<>> \/ e.client_id = q.client_id)
              /\ (q.event_type = <<>> \/ e.event_type = q.event_type)
              /\ (q.from.kind = "absent" \/ e.timestamp_ist >= q.from.t)
              /\ (q.to.kind = "absent" \/ e.timestamp_ist <= q.to.t)
            n == Cardinality({k \in 1..Len(events) : Sat(events[k])})
            lim == IF q.limit.given THEN q.limit.n ELSE 200
        IN (/\ lim >= 0
            /\ q.from.kind \in {"absent", "iso"}
            /\ q.to.kind \in {"absent", "iso"}) =>
             /\ listing'.status = "ok"
             /\ Len(out) = (IF n <= lim THEN n ELSE lim)
             /\ listing'.total = Len(out)
             /\ \A i \in 1..Len(out) :
                   Sat(out[i]) /\ \E k \in 1..Len(events) : events[k] = out[i]
             /\ \A i, j \in 1..Len(out) : i # j => out[i] # out[j]
             /\ \A i \in 1..(Len(out) - 1) :
                   out[i].timestamp_ist >= out[i + 1].timestamp_ist
             /\ \A k \in 1..Len(events) :
                   (Sat(events[k]) /\ \A i \in 1..Len(out) : out[i] # events[k]) =>
                     \A i \in 1..Len(out) :
                       out[i].timestamp_ist >= events[k].timestamp_ist ]_vars

\* C16 witness: of the two stored events of 05:30 and of 00:30 IST of the
\* next day, a listing with limit 1 and no other filter has the later one.
C16_Witness ==
  /\ listing.status = "ok"
  /\ listing.query = [NoQuery EXCEPT !.limit = Limit(1)]
  /\ Len(events) = 2
  /\ events[1].timestamp_ist = 1470 /\ events[2].timestamp_ist = 330
  /\ listing.events = <<events[1]>>

\* C17: the `cleared` of the response of DELETE /api/events is the number
\* of events its DELETE removed, also when a webhook request is handled at
\* the same time.
C17_ClearedIsRemoved ==
  clear.pc = "done" => clear.cleared = clear.removed

\* C18: a step of any operation leaves every stored event as it is (more
\* events may follow it), unless the step is the DELETE of the bulk clear,
\* which removes them all; so the camera_location of an event stays what
\* the camera was called when the event was stored.
C18_EventsImmutable ==
  [][ \/ /\ Len(events') >= Len(events)
         /\ \A k \in 1..Len(events) : events'[k] = events[k]
      \/ /\ clear.pc = "counted" /\ clear'.pc = "done"
         /\ events' = <<>> ]_vars

\* C18 witness: camera 93518 was renamed between two of its events; the
\* earlier event still has the old name, the later one the new name.
C18_Witness ==
  /\ Len(events) = 2
  /\ events[1].camera_id = cam93518 /\ events[2].camera_id = cam93518
  /\ events[1].camera_location = <<"M","a","i","n"," ","G","a","t","e">>
  /\ events[2].camera_location = GateA
  /\ \E c \in cameras : c.camera_uid = cam93518 /\ c.name = GateA

\* C19: at every moment at most one run of sendDailyReports is in progress.
C19_OneRunAtATime ==
  Cardinality({ r \in 1..Len(report.runs) : report.runs[r].pc # "done" }) <= 1

\* C20: a run that got its list of admins ends only after it handed to
\* sendEmail the report of every admin but those a query of whose report
\* failed, and each such failure is logged.
C20_RemainingAdminsAttempted ==
  \A r \in 1..Len(report.runs) :
    LET run == report.runs[r] IN
    (run.pc = "done" /\ run.admins # <<>>) =>
      /\ run.logged >= Cardinality(run.failed)
      /\ \A i \in 1..Len(run.admins) :
            \/ i \in run.failed
            \/ \E a \in 1..Len(run.attempted) :
                 run.attempted[a].code = run.admins[i].code

\* C21: the list of admins a run of the daily report reads has, for every
\* active user of role admin (is_active, and the password set) and every
\* society the user has access to (by users.society_id or by a row of
\* user_societies), an entry of that user with the code of that society; and
\* a run that ends without a logged error has handed to sendEmail a report
\* with the code of every entry of its list.
C21_EveryAdminReported ==
  [][ \A r \in 1..Len(report'.runs) :
        LET run == report'.runs[r] IN
        /\ (r <= Len(report.runs) /\ report.runs[r].pc = "select"
                                  /\ run.pc # "select" /\ run.logged = 0) =>
              \A u \in users : \A s \in societies :
                (/\ u.role = "admin" /\ u.is_active /\ u.password
                 /\ (u.society_id = s.id \/ <<u.id, s.id>> \in user_societies)) =>
                  \E i \in 1..Len(run.admins) :
                    run.admins[i] = [username |-> u.username, code |-> s.code]
        /\ (run.pc = "done" /\ run.logged = 0) =>
              \A i \in 1..Len(run.admins) :
                \E a \in 1..Len(run.attempted) :
                  run.attempted[a].code = run.admins[i].code ]_vars

\* C22: the event_type of a stored event whose lowercased raw type contains
\* a keyword of one of the six keyword rules is the canonical type of the
\* first such rule in the fixed order, also when the type contains
\* "analytic" and whatever its detected-object list is: the analytic
\* inspection is tried after the six rules.
C22_AnalyticAfterKeywords ==
  LET Rules ==
        << [kw |-> {kw_motion, kw_person, kw_people}, type |-> person_detected],
           [kw |-> {kw_vehicle, kw_car, kw_alpr}, type |-> vehicle_detected],
           [kw |-> {kw_crowd}, type |-> crowd_detected],
           [kw |-> {kw_loiter}, type |-> loitering],
           [kw |-> {kw_offline, kw_disconnect}, type |-> camera_offline],
           [kw |-> {kw_online, kw_connect}, type |-> camera_online] >>
      Matches(t, n) == \E kw \in Rules[n].kw : includes(t, kw)
  IN \A k \in 1..Len(events) :
       LET t == toLowerCase(events[k].event_type_raw) IN
       \A n \in 1..6 :
         (Matches(t, n) /\ \A m \in 1..(n - 1) : ~Matches(t, m)) =>
           events[k].event_type = Rules[n].type

\* C23: a stored event whose lowercased raw type is "analytic" is
\* person_detected when a descriptor of its detected-object list
\* (data.objectsFound when present, else objectsFound) has a type that
\* contains person, people or face; else vehicle_detected when one contains
\* vehicle or car; else crowd_detected when one contains crowd; else
\* "analytic".
C23_AnalyticByObjects ==
  \A k \in 1..Len(events) :
    LET raw == req[1].body[1]
        list == IF raw.dataObjects.present THEN raw.dataObjects.items
                ELSE raw.objects.items
        SomeType(kws) == \E n \in 1..Len(list) : \E kw \in kws :
                      includes(toLowerCase(list[n]), kw)
    IN toLowerCase(events[k].event_type_raw) = analytic =>
         events[k].event_type =
           (IF SomeType({kw_person, kw_people, kw_face}) THEN person_detected
            ELSE IF SomeType({kw_vehicle, kw_car}) THEN vehicle_detected
            ELSE IF SomeType({kw_crowd}) THEN crowd_detected
            ELSE analytic)

C25_WeeklyBuckets ==
  [][ stats' # stats =>
        LET s == stats'
            cid == s.client_id
            istToday == (now + 330) \div 1440
            On(d) == [k \in 1..Len(events) |->
                        IF /\ events[k].event_type \in
                                {person_detected, vehicle_detected, crowd_detected}
                           /\ (cid = <<>> \/ events[k].client_id = cid)
                           /\ (events[k].timestamp_utc + 330) \div 1440 = d
                          THEN events[k].visitor_count ELSE 0]
        IN /\ Len(s.trends.weekly) = 7
           /\ \A j \in 0..6 :
                 /\ s.trends.weekly[j + 1].visitors = Sum(On(istToday - (6 - j)))
                 /\ s.trends.weekly[j + 1].label = istToday - (6 - j) ]_vars

\* C26: the timer set at process start is due at the first 03:30 UTC (09:00
\* IST) after the start, so its delay is greater than 0 and at most 24 hours;
\* a run is triggered when its timer is due, and each trigger sets the timer
\* of the next run to 24 hours later.
C26_NextNineIst ==
  [][ /\ report.timer = "timeout" =>
           LET delay == report.due - report.set IN
           /\ delay > 0 /\ delay <= 1440
           /\ report.due % 1440 = 210
      /\ Len(report'.runs) = Len(report.runs) + 1 =>
           /\ now = report.due
           /\ report'.timer = "interval"
           /\ report'.due = now + 1440 ]_vars

\* C26 witness: the process started at 03:30 UTC or later in the day, the
\* first run was triggered at 03:30 UTC of the next day and the second one
\* 24 hours after it.
C26_Witness ==
  /\ Len(report.runs) = 2
  /\ report.set = 1650 + 1440
  /\ now = report.set

\* C27: an invite token that was issued less than 24 hours ago, was not yet
\* used, and was not followed by a newer invite for the same user (the same
\* id or username) is accepted by POST /api/set-password: a row of users has
\* it as its invite_token, not expired.
C27_InviteLastsADay ==
  \A k \in 1..Len(auth.issued) :
    LET inv == auth.issued[k] IN
    (/\ now < inv.at + 1440
     /\ inv.token \notin auth.used
     /\ \A j \in (k + 1)..Len(auth.issued) :
          /\ auth.issued[j].user # inv.user
          /\ auth.issued[j].username # inv.username) =>
      \E u \in users : u.invite_token = inv.token /\ u.invite_expires > now

\* C28: a set-password request finds a row only for a token that was issued,
\* was not used by a set-password request answered before, and is the newest
\* token issued for its user; and a login succeeds only for a seeded user or
\* a user one of whose tokens was used to set a password.
C28_TokenSingleUse ==
  [][ /\ (auth.pc = "idle" /\ auth'.pc = "update") =>
           /\ auth'.token \notin auth.used
           /\ \E k \in 1..Len(auth.issued) :
                /\ auth.issued[k].token = auth'.token
                /\ \A j \in (k + 1)..Len(auth.issued) :
                      auth.issued[j].user # auth.issued[k].user
      /\ (auth'.login # auth.login /\ auth'.login.status = "ok") =>
           \/ auth'.login.username \in
                {"superadmin", "secretary", "chairman", "guard1"}
           \/ \E k \in 1..Len(auth.issued) :
                /\ auth.issued[k].username = auth'.login.username
                /\ auth.issued[k].token \in auth.used ]_vars

\* C28 witness: token 1 set a password, a second invite was issued to the
\* same user, the last set-password request, with the used token 1, was
\* rejected, and the user logged in.
C28_Witness ==
  /\ 1 \in auth.used
  /\ auth.pc = "idle" /\ auth.token = 1 /\ auth.status = "rejected"
  /\ Len(auth.issued) = 2 /\ auth.issued[2].user = auth.issued[1].user
  /\ auth.login.status = "ok"

\* C29: a GET /api/events request of an active user of role admin is
\* answered with events of that admin's own society only: every event of
\* the response has the code of the society the admin belongs to as its
\* client_id, whatever the client_id parameter of the request.
C29_AdminSeesOwnSociety ==
  [][ (listing' # listing /\ listing'.status = "ok") =>
        \A u \in currentUser(listing'.uid) :
          u.role = "admin" =>
            \A i \in 1..Len(listing'.events) :
              \E s \in societies :
                /\ s.id = u.society_id
                /\ listing'.events[i].client_id = s.code ]_vars

\* C30: the sub-results of one stats response, computed while no event is
\* inserted or cleared, agree: the last weekly bucket is visitors.today, the
\* one before it visitors.yesterday, and the 18 hourly today values add up
\* to at most visitors.today, and to visitors.today when no visitor-class
\* event of today falls in the IST hours 0-4 or 23.
C30_SnapshotAgrees ==
  LET SumToday[n \in 0..18] ==
        IF n = 0 THEN 0 ELSE SumToday[n - 1] + stats.trends.hourly[n].today
      OffHours(e) ==
        /\ e.event_type \in visitorTypes
        /\ stats.client_id = <<>> \/ e.client_id = stats.client_id
        /\ SqlDate(e.timestamp_utc + IST_OFFSET_MS)
             = SqlDate(stats.at - IST_OFFSET_MS)
        /\ SqlHour(e.timestamp_utc + IST_OFFSET_MS) \in (0..4) \cup {23}
  IN (stats.at # -1 /\ Len(stats.trends.weekly) = 7) =>
       /\ stats.trends.weekly[7].visitors = stats.visitors.today
       /\ stats.trends.weekly[6].visitors = stats.visitors.yesterday
       /\ SumToday[18] <= stats.visitors.today
       /\ (\A k \in 1..Len(events) : ~OffHours(events[k])) =>
            SumToday[18] = stats.visitors.today

====
